---- MODULE Spec2Model ----
(***************************************************************************)
(* A model of ProfaneDetect (src/src/index.ts): the normalizer, the        *)
(* lexicon built at construction, the fast-lookup cache and the public     *)
(* operations detect, checkWord, addToWhitelist and toJson.                *)
(*                                                                         *)
(* A string is a sequence of characters; a character is a one-element      *)
(* name: an ASCII character stands for itself, and the few non-ASCII       *)
(* characters the model needs have a mnemonic name:                        *)
(*   "ACUTE"   U+0301 combining acute accent                               *)
(*   "AACUTE"  U+00E1 a with acute (NFD: a + U+0301)                       *)
(*   "ZWSP"    U+200B zero width space                                     *)
(*   "GrAlpha" U+03B1 greek small alpha, a homoglyph of a                  *)
(*   "MbA"     U+1D400 mathematical bold capital A (no lower case form)    *)
(***************************************************************************)
EXTENDS Integers, Sequences, FiniteSets, TLC

VARIABLES
    caseSensitive,        \* this.caseSensitive
    useFastLookup,        \* this.useFastLookup
    useReversible,        \* this.useReversible
    homoglyphMapping,     \* this.homoglyphMapping
    bannedWords,          \* this.bannedWords
    fastLookup,           \* this.fastLookup: normalized key -> WordStatus
    userWhitelist,        \* this.userWhitelist
    normalizedBannedMap,  \* this.normalizedBannedMap: normalized key -> word
    normalizedWhitelist,  \* this.normalizedWhitelist
    added,                \* history: the words passed to addToWhitelist
    last                  \* history: the last call, its argument and result

vars == <<caseSensitive, useFastLookup, useReversible, homoglyphMapping,
          bannedWords, fastLookup, userWhitelist, normalizedBannedMap,
          normalizedWhitelist, added, last>>

-----------------------------------------------------------------------------
(* Characters *)

LowerLetters == <<"a","b","c","d","e","f","g","h","i","j","k","l","m",
                  "n","o","p","q","r","s","t","u","v","w","x","y","z">>

UpperLetters == <<"A","B","C","D","E","F","G","H","I","J","K","L","M",
                  "N","O","P","Q","R","S","T","U","V","W","X","Y","Z">>

Range(f) == { f[x] : x \in DOMAIN f }

AsciiLetters == Range(LowerLetters) \cup Range(UpperLetters)

\* /[a-zA-Z]/.test(c)
IsAsciiLetter(c) == c \in AsciiLetters

LowerOf == [c \in Range(UpperLetters) |->
              LowerLetters[CHOOSE i \in DOMAIN UpperLetters : UpperLetters[i] = c]]

\* a toLowerCase that leaves every character as it is
ToLowerCharKeep(c) == c

\* String.prototype.toLowerCase, one character at a time
ToLowerChar(c) == IF c \in DOMAIN LowerOf THEN LowerOf[c] ELSE c

\* the canonical decomposition of one character
NFDChar(c) == IF c = "AACUTE" THEN <<"a", "ACUTE">> ELSE <<c>>

\* /[\u0300-\u036F]/
IsCombiningMark(c) == c \in {"ACUTE"}

\* /[\u200B-\u200D\uFEFF]/
IsZeroWidth(c) == c \in {"ZWSP"}

\* /\s/
IsWhitespace(c) == c \in {" "}

\* Leetspeak digit -> letter map
digitMap == ("0" :> "o") @@ ("1" :> "i") @@ ("3" :> "e") @@
            ("4" :> "a") @@ ("5" :> "s") @@ ("7" :> "t")

-----------------------------------------------------------------------------
(* Sequence helpers *)

\* s.split("").reverse().join("")
Reverse(s) == [i \in 1..Len(s) |-> s[Len(s) + 1 - i]]

-----------------------------------------------------------------------------
(* normalize *)

\* String.prototype.normalize("NFD")
RECURSIVE NFD(_)
NFD(s) == IF s = <<>> THEN <<>> ELSE NFDChar(Head(s)) \o NFD(Tail(s))

\* let c = this.homoglyphMapping[ch] || ch; if (digitMap[c]) c = digitMap[c]
MapChar(hm, ch) ==
    LET c == IF ch \in DOMAIN hm /\ hm[ch] # "" THEN hm[ch] ELSE ch
    IN  IF c \in DOMAIN digitMap THEN digitMap[c] ELSE c

NotCombiningMark(c) == ~IsCombiningMark(c)

NotZeroWidth(c) == ~IsZeroWidth(c)

\* normalize without the final letter filter
NormalizeWithKeepAll(cs, hm, text) ==
    LET s0 == IF cs THEN text ELSE [i \in DOMAIN text |-> ToLowerChar(text[i])]
        s3 == SelectSeq(SelectSeq(NFD(s0), NotCombiningMark), NotZeroWidth)
    IN  [i \in DOMAIN s3 |-> MapChar(hm, s3[i])]

NormalizeWith(cs, hm, text) ==
    LET s0 == IF cs THEN text ELSE [i \in DOMAIN text |-> ToLowerChar(text[i])]
        s1 == NFD(s0)
        s2 == SelectSeq(s1, NotCombiningMark)
        s3 == SelectSeq(s2, NotZeroWidth)
        out == [i \in DOMAIN s3 |-> MapChar(hm, s3[i])]
    IN  SelectSeq(out, IsAsciiLetter)

normalize(text) == NormalizeWith(caseSensitive, homoglyphMapping, text)

-----------------------------------------------------------------------------
(* Results *)

\* An optional value: <<>> is undefined, <<v>> is v
None == <<>>

Some(v) == <<v>>

\* A WordStatus of the cache
Entry(status, reason, originalWord) ==
    [status |-> status, reason |-> reason, originalWord |-> originalWord]

\* Set<string>.add: insertion order, no duplicates
SetAdd(seq, w) == IF w \in Range(seq) THEN seq ELSE Append(seq, w)

\* fastLookup[key] = entry
Put(fl, key, entry) == [k \in DOMAIN fl \cup {key} |-> IF k = key THEN entry ELSE fl[k]]

-----------------------------------------------------------------------------
(* Construction *)

\* a banned map that keeps the first word stored for a key
RECURSIVE BuildBannedMapFirst(_, _, _, _)
BuildBannedMapFirst(cs, hm, words, m) ==
    IF words = <<>> THEN m
    ELSE BuildBannedMapFirst(cs, hm, Tail(words),
                             IF NormalizeWith(cs, hm, Head(words)) \in DOMAIN m
                             THEN m
                             ELSE Put(m, NormalizeWith(cs, hm, Head(words)), Head(words)))

\* for (const w of this.bannedWords) normalizedBannedMap.set(normalize(w), w)
RECURSIVE BuildBannedMap(_, _, _, _)
BuildBannedMap(cs, hm, words, m) ==
    IF words = <<>> THEN m
    ELSE BuildBannedMap(cs, hm, Tail(words),
                        Put(m, NormalizeWith(cs, hm, Head(words)), Head(words)))

\* for (const w of defaultWhitelist) normalizedWhitelist.add(normalize(w))
BuildWhitelist(cs, hm, words) == { NormalizeWith(cs, hm, w) : w \in Range(words) }

\* for (const w of words) fastLookup[normalize(w)] = {status, reason, originalWord: w}
RECURSIVE SeedLookup(_, _, _, _, _, _)
SeedLookup(cs, hm, words, status, reason, fl) ==
    IF words = <<>> THEN fl
    ELSE SeedLookup(cs, hm, Tail(words), status, reason,
                    Put(fl, NormalizeWith(cs, hm, Head(words)),
                        Entry(status, reason, Some(Head(words)))))

-----------------------------------------------------------------------------
(* The lexicon and the inputs of the model *)

W_bad == <<"b","a","d">>

W_Bad == <<"B","a","d">>

W_add == <<"a","d","d">>

W_Add == <<"A","d","d">>

W_dad == <<"d","a","d">>

W_dab == <<"d","a","b">>

W_abd == <<"a","b","d">>

\* options.bannedWords: two words that differ in case only, and a third
BannedWordList == <<W_bad, W_Bad, W_add>>

\* raw_data/whitelist.json, loaded at module scope
defaultWhitelist == <<W_dad, W_Add>>

\* raw_data/chars.txt as loadHomoglyphMapping reads it: every character of
\* a line maps to the first one of the line
defaultHomoglyphMapping == ("a" :> "a") @@ ("GrAlpha" :> "a")

\* options.safeWords
SafeWordLists == { <<>>, <<W_add>> }

\* w with the separator sep between its letters
RECURSIVE Interleave(_, _)
Interleave(w, sep) ==
    IF Len(w) <= 1 THEN w ELSE <<Head(w), sep>> \o Interleave(Tail(w), sep)

PlainTokens == Range(BannedWordList) \cup { W_dad, W_dab, W_abd }

\* banned words with separators between their letters
ObfuscatedTokens == { Interleave(w, ".") : w \in Range(BannedWordList) }
                        \cup { <<"b","*","a","d">> }

\* leetspeak, a homoglyph, reversed words, separators only
DisguisedTokens == { <<"b","4","d">>, <<"b","GrAlpha","d">>, <<"d","4","b">>,
                     <<"d",".","a",".","b">>, <<".",".">> }

Tokens == PlainTokens \cup ObfuscatedTokens \cup DisguisedTokens

\* tokens.join(" ")
RECURSIVE Join(_)
Join(tokens) ==
    IF tokens = <<>> THEN <<>>
    ELSE IF Len(tokens) = 1 THEN Head(tokens)
    ELSE Head(tokens) \o <<" ">> \o Join(Tail(tokens))

TokenPairs == { <<W_abd, w>> : w \in Range(BannedWordList) }
                 \cup { <<W_bad, W_abd>>,
                        <<W_dab, <<"d","4","b">> >>, << <<"d","4","b">>, W_dab>> }

Texts == Tokens \cup { Join(p) : p \in TokenPairs }

JsonTexts == { W_bad, W_dab }

CheckWords == PlainTokens

AddWords == { W_bad, W_dab }

-----------------------------------------------------------------------------
(* detect *)

\* text.split(/\s+/).filter(Boolean)
RECURSIVE SplitFrom(_, _, _)
SplitFrom(text, cur, acc) ==
    IF text = <<>>
    THEN (IF cur = <<>> THEN acc ELSE Append(acc, cur))
    ELSE IF IsWhitespace(Head(text))
         THEN SplitFrom(Tail(text), <<>>, IF cur = <<>> THEN acc ELSE Append(acc, cur))
         ELSE SplitFrom(Tail(text), Append(cur, Head(text)), acc)

Split(text) == SplitFrom(text, <<>>, <<>>)

\* HasSep with the dot taken for a letter: /[^A-Za-z.]/
HasSepButDot(raw) == \E i \in DOMAIN raw : ~IsAsciiLetter(raw[i]) /\ raw[i] # "."

\* /[^A-Za-z]/.test(raw)
HasSep(raw) == \E i \in DOMAIN raw : ~IsAsciiLetter(raw[i])

\* raw.replace(/[^A-Za-z]/g, "")
Strip(raw) == SelectSeq(raw, IsAsciiLetter)

\* In the operators of detect, ufl is this.useFastLookup and st is the state
\* of the call: the cache, the detected set and the two counters.

\* CacheStep that reports the banned words of the list only, and skips the
\* keys that detect memoized
CacheStepSeededOnly(st, normRaw) ==
    LET cached == st.fl[normRaw]
    IN  IF cached.status = "banned" /\ cached.reason = "banned word"
        THEN [st EXCEPT !.detected = SetAdd(@, cached.originalWord[1])]
        ELSE [st EXCEPT !.whitelistedSkips = @ + 1]

\* a cache hit that reports the word of the banned map whenever the key
\* is a banned key, whatever the status of the entry
CacheStepLexicon(st, normRaw) ==
    IF normRaw \in DOMAIN normalizedBannedMap
    THEN [st EXCEPT !.detected = SetAdd(@, normalizedBannedMap[normRaw])]
    ELSE [st EXCEPT !.whitelistedSkips = @ + 1]

\* 1) the cache hit of the token loop
CacheStep(st, normRaw) ==
    LET cached == st.fl[normRaw]
    IN  IF cached.status = "banned"
        THEN [st EXCEPT !.detected = SetAdd(@, cached.originalWord[1])]
        ELSE [st EXCEPT !.whitelistedSkips = @ + 1]

\* the whitelist check of the token loop
WhitelistStep(ufl, st, raw, normRaw) ==
    LET user == normRaw \in userWhitelist
    IN  [st EXCEPT
           !.whitelistedSkips = @ + 1,
           !.fl = IF ufl
                  THEN Put(@, normRaw,
                           Entry(IF user THEN "pass" ELSE "safe",
                                 IF user THEN "user whitelist" ELSE "default whitelist",
                                 Some(raw)))
                  ELSE @]

\* 2) obfuscated exact match
ObfuscatedStep(ufl, st, normRaw, normStr) ==
    LET word == normalizedBannedMap[normStr]
    IN  [st EXCEPT
           !.detected = SetAdd(@, word),
           !.fl = IF ufl
                  THEN Put(@, normRaw, Entry("banned", "obfuscated exact match", Some(word)))
                  ELSE @]

\* ReversibleStep that memoizes the token as safe
ReversibleStepMemoSafe(ufl, st, normRaw, revNorm) ==
    LET word == normalizedBannedMap[revNorm]
    IN  [st EXCEPT
           !.detected = SetAdd(@, word),
           !.fl = IF ufl
                  THEN Put(@, normRaw, Entry("safe", "passed checks", None))
                  ELSE @]

\* ReversibleStep that reports the word and leaves the cache alone
ReversibleStepNoMemo(ufl, st, normRaw, revNorm) ==
    [st EXCEPT !.detected = SetAdd(@, normalizedBannedMap[revNorm])]

\* 3) reversible detection
ReversibleStep(ufl, st, normRaw, revNorm) ==
    LET word == normalizedBannedMap[revNorm]
    IN  [st EXCEPT
           !.detected = SetAdd(@, word),
           !.fl = IF ufl
                  THEN Put(@, normRaw, Entry("banned", "reversible match", Some(word)))
                  ELSE @]

\* FallbackStep that memoizes the token also when fast lookup is disabled
FallbackStepAlways(ufl, st, normRaw) ==
    IF normRaw \notin DOMAIN st.fl
    THEN [st EXCEPT !.fl = Put(@, normRaw, Entry("safe", "passed checks", None))]
    ELSE st

\* FallbackStep that evicts the other entries when it memoizes a token
FallbackStepEvict(ufl, st, normRaw) ==
    IF ufl /\ normRaw \notin DOMAIN st.fl
    THEN [st EXCEPT !.fl = Put(<<>>, normRaw, Entry("safe", "passed checks", None))]
    ELSE st

\* 4) fallback safe cache
FallbackStep(ufl, st, normRaw) ==
    IF ufl /\ normRaw \notin DOMAIN st.fl
    THEN [st EXCEPT !.fl = Put(@, normRaw, Entry("safe", "passed checks", None))]
    ELSE st

\* the token loop with a whitelist check that reads the default whitelist
\* only
DetectTokenDefaultWhitelist(ufl, st, raw) ==
    LET normRaw   == normalize(raw)
        bannedSet == DOMAIN normalizedBannedMap
        normStr   == normalize(Strip(raw))
        revNorm   == Reverse(normStr)
        hits      == IF ufl THEN [st EXCEPT !.lookupHits = @ + 1] ELSE st
    IN  IF ufl /\ normRaw \in DOMAIN st.fl
        THEN CacheStep(hits, normRaw)
        ELSE IF normRaw \in normalizedWhitelist
        THEN WhitelistStep(ufl, hits, raw, normRaw)
        ELSE IF HasSep(raw) /\ normStr \in bannedSet
        THEN ObfuscatedStep(ufl, hits, normRaw, normStr)
        ELSE IF useReversible /\ revNorm \in bannedSet
        THEN ReversibleStep(ufl, hits, normRaw, revNorm)
        ELSE FallbackStep(ufl, hits, normRaw)

\* one iteration of the token loop
DetectToken(ufl, st, raw) ==
    LET normRaw   == normalize(raw)
        bannedSet == DOMAIN normalizedBannedMap
        normStr   == normalize(Strip(raw))
        revNorm   == Reverse(normStr)
        hits      == IF ufl THEN [st EXCEPT !.lookupHits = @ + 1] ELSE st
    IN  IF ufl /\ normRaw \in DOMAIN st.fl
        THEN CacheStep(hits, normRaw)
        ELSE IF normRaw \in userWhitelist \/ normRaw \in normalizedWhitelist
        THEN WhitelistStep(ufl, hits, raw, normRaw)
        ELSE IF HasSep(raw) /\ normStr \in bannedSet
        THEN ObfuscatedStep(ufl, hits, normRaw, normStr)
        ELSE IF useReversible /\ revNorm \in bannedSet
        THEN ReversibleStep(ufl, hits, normRaw, revNorm)
        ELSE FallbackStep(ufl, hits, normRaw)

RECURSIVE DetectLoop(_, _, _)
DetectLoop(ufl, st, rawTokens) ==
    IF rawTokens = <<>> THEN st
    ELSE DetectLoop(ufl, DetectToken(ufl, st, Head(rawTokens)), Tail(rawTokens))

\* detect(text) called with the cache fl: the cache the call leaves and the
\* DetectionResult it returns
DetectWith(ufl, fl, text) ==
    LET rawTokens == Split(text)
        st == DetectLoop(ufl, [fl |-> fl, detected |-> <<>>,
                               whitelistedSkips |-> 0, lookupHits |-> 0], rawTokens)
    IN  [fl     |-> st.fl,
         result |-> [found            |-> Len(st.detected) > 0,
                     matches          |-> st.detected,
                     normalized       |-> normalize(text),
                     exactMatches     |-> Len(st.detected),
                     fuzzyMatches     |-> 0,
                     totalChecked     |-> Len(rawTokens),
                     whitelistedSkips |-> st.whitelistedSkips,
                     lookupHits       |-> IF ufl THEN Some(st.lookupHits) ELSE None]]

DetectFrom(fl, text) == DetectWith(useFastLookup, fl, text)

Detect(text) == DetectFrom(fastLookup, text)

-----------------------------------------------------------------------------
(* checkWord *)

\* checkWord that looks the banned map up before the user whitelist
CheckWordBannedFirst(word) ==
    LET n == normalize(word)
    IN  IF ~useFastLookup
        THEN Entry("error", "Fast lookup is disabled.", None)
        ELSE IF n \in DOMAIN normalizedBannedMap
        THEN Entry("banned", "banned word", Some(normalizedBannedMap[n]))
        ELSE IF n \in userWhitelist
        THEN Entry("pass", "user whitelist", None)
        ELSE IF n \in DOMAIN fastLookup
        THEN fastLookup[n]
        ELSE Entry("safe", "not found in cache", None)

\* checkWord that falls back to the lexicon when fast lookup is disabled
CheckWordFallback(word) ==
    LET n == normalize(word)
    IN  IF n \in userWhitelist
        THEN Entry("pass", "user whitelist", None)
        ELSE IF ~useFastLookup
        THEN (IF n \in DOMAIN normalizedBannedMap
              THEN Entry("banned", "banned word", Some(normalizedBannedMap[n]))
              ELSE Entry("safe", "not found in cache", None))
        ELSE IF n \in DOMAIN fastLookup
        THEN fastLookup[n]
        ELSE Entry("safe", "not found in cache", None)

\* the WordStatus checkWord returns; status "error" when it throws
CheckWord(word) ==
    LET n == normalize(word)
    IN  IF ~useFastLookup
        THEN Entry("error", "Fast lookup is disabled.", None)
        ELSE IF n \in userWhitelist
        THEN Entry("pass", "user whitelist", None)
        ELSE IF n \in DOMAIN fastLookup
        THEN fastLookup[n]
        ELSE Entry("safe", "not found in cache", None)

-----------------------------------------------------------------------------
(* The state machine *)

\* the cache seeded from safeWords first, so that the default whitelist
\* and banned words overwrite safeWords entries
InitialLookupSafeFirst(cs, hm, ufl, banned, safeWords) ==
    LET safe == SeedLookup(cs, hm, safeWords, "pass", "user whitelist", <<>>)
    IN  IF ufl
        THEN SeedLookup(cs, hm, banned, "banned", "banned word",
                SeedLookup(cs, hm, defaultWhitelist, "safe", "default whitelist", safe))
        ELSE <<>>

\* initializeCaches: the cache after construction
InitialLookup(cs, hm, ufl, banned, safeWords) ==
    LET seeded == SeedLookup(cs, hm, banned, "banned", "banned word",
                    SeedLookup(cs, hm, defaultWhitelist, "safe", "default whitelist", <<>>))
    IN  IF ufl
        THEN SeedLookup(cs, hm, safeWords, "pass", "user whitelist", seeded)
        ELSE <<>>

\* new ProfaneDetect(options)
Construct(cs, hm, ufl, rev, banned, safeWords) ==
    /\ caseSensitive = cs
    /\ homoglyphMapping = hm
    /\ useFastLookup = ufl
    /\ useReversible = rev
    /\ bannedWords = banned
    /\ normalizedBannedMap = BuildBannedMap(cs, hm, banned, <<>>)
    /\ normalizedWhitelist = BuildWhitelist(cs, hm, defaultWhitelist)
    /\ userWhitelist = BuildWhitelist(cs, hm, safeWords)
    /\ fastLookup = InitialLookup(cs, hm, ufl, banned, safeWords)
    /\ added = {}

Init ==
    \E cs \in BOOLEAN, ufl \in BOOLEAN, rev \in BOOLEAN, safeWords \in SafeWordLists :
        /\ Construct(cs, defaultHomoglyphMapping, ufl, rev, BannedWordList, safeWords)
        /\ last = [op |-> "new", arg |-> safeWords, result |-> None]

Config == <<caseSensitive, useFastLookup, useReversible, homoglyphMapping, bannedWords>>

Lexicon == <<normalizedBannedMap, normalizedWhitelist>>

\* detect(text)
DetectCall ==
    \E text \in Texts :
        LET d == Detect(text)
        IN  /\ fastLookup' = d.fl
            /\ last' = [op |-> "detect", arg |-> text, result |-> d.result]
            /\ UNCHANGED <<Config, Lexicon, userWhitelist, added>>

\* checkWord(word)
CheckWordCall ==
    \E word \in CheckWords :
        /\ last' = [op |-> "checkWord", arg |-> word, result |-> CheckWord(word)]
        /\ UNCHANGED <<Config, Lexicon, fastLookup, userWhitelist, added>>

\* addToWhitelist that leaves the cache as it is
WhitelistLookupKeep(word) == fastLookup

\* the cache addToWhitelist(word) leaves
WhitelistLookup(word) ==
    IF useFastLookup
    THEN Put(fastLookup, normalize(word), Entry("pass", "user added", Some(word)))
    ELSE fastLookup

\* addToWhitelist(word)
AddToWhitelistCall ==
    \E word \in AddWords :
        /\ userWhitelist' = userWhitelist \cup {normalize(word)}
        /\ fastLookup' = WhitelistLookup(word)
        /\ added' = added \cup {word}
        /\ last' = [op |-> "addToWhitelist", arg |-> word, result |-> None]
        /\ UNCHANGED <<Config, Lexicon>>

\* toJson(text): detect(text) and a snapshot of the configuration (the
\* timestamp and the byte size of the serialized cache are left out)
ToJsonCall ==
    \E text \in JsonTexts :
        LET d == Detect(text)
        IN  /\ fastLookup' = d.fl
            /\ last' = [op |-> "toJson", arg |-> text,
                        result |-> d.result,
                        config |-> [caseSensitive    |-> caseSensitive,
                                    totalSafeWords   |-> Cardinality(userWhitelist),
                                    totalBannedWords |-> Len(bannedWords),
                                    totalWhitelisted |-> Len(defaultWhitelist),
                                    usingFastLookup  |-> useFastLookup,
                                    usingReversible  |-> useReversible]]
            /\ UNCHANGED <<Config, Lexicon, userWhitelist, added>>

Next == DetectCall \/ CheckWordCall \/ AddToWhitelistCall \/ ToJsonCall

Spec == Init /\ [][Next]_vars

-----------------------------------------------------------------------------
(* normalize on its own: the input strings and the homoglyph tables are   *)
(* drawn by NormInit, the actions apply normalize to the input and to the *)
(* result of the previous call                                             *)

MaxLen == 2

NormChars == { "a", "A", "b", "B", "4", "2", ".", "AACUTE", "ACUTE", "ZWSP",
               "GrAlpha", "MbA" }

Strings == UNION { [1..k -> NormChars] : k \in 0..MaxLen }

\* options.homoglyphMapping: single characters to single characters
HomoglyphTables ==
    { t @@ ("GrAlpha" :> "a") : t \in [{"a", "MbA"} -> {"a", "b", "A", "4"}] }
        \cup { <<>> }

NormInit ==
    \E cs \in BOOLEAN, hm \in HomoglyphTables, s \in Strings :
        /\ Construct(cs, hm, TRUE, TRUE, BannedWordList, <<>>)
        /\ last = [op |-> "input", arg |-> s, result |-> None]

\* normalize(text) for the input
NormalizeCall ==
    /\ last.op = "input"
    /\ last' = [op |-> "normalize", arg |-> last.arg, result |-> normalize(last.arg)]
    /\ UNCHANGED <<Config, Lexicon, fastLookup, userWhitelist, added>>

\* normalize(r) for the result r of the previous call
NormalizeAgainCall ==
    /\ last.op = "normalize"
    /\ last' = [op |-> "normalize", arg |-> last.result, result |-> normalize(last.result)]
    /\ UNCHANGED <<Config, Lexicon, fastLookup, userWhitelist, added>>

NormNext == NormalizeCall \/ NormalizeAgainCall

NormSpec == NormInit /\ [][NormNext]_vars

-----------------------------------------------------------------------------
(* Properties *)

\* the set of the matches of a DetectionResult
MatchSet(result) == Range(result.matches)

\* the key is whitelisted: by the user or by the default whitelist
Whitelisted(key) == key \in userWhitelist \/ key \in normalizedWhitelist

\* the state right after construction
Fresh == last.op = "new"

\* the banned word that normalizedBannedMap stores for the key of w is w
Stored(w) == normalizedBannedMap[normalize(w)] = w

\* C1: after detect(text), every banned word that is a token of the text, has
\* a normalized form of at least 3 letters and is not whitelisted, is in
\* matches and found is true, with fast lookup enabled and with it disabled
\* (stated for the banned words that the banned map stores under their key).
C1_ExactDetection ==
    last.op = "detect" =>
        \A w \in Range(bannedWords) :
            ( /\ Len(normalize(w)) >= 3
              /\ ~Whitelisted(normalize(w))
              /\ Stored(w)
              /\ w \in Range(Split(last.arg)) )
            => last.result.found /\ w \in MatchSet(last.result)

\* C2 as stated: for every word w passed to addToWhitelist, checkWord(w)
\* returns status pass in every later state.
C2_AlwaysPass == \A w \in added : CheckWord(w).status = "pass"

\* C2 amended: for every word w passed to addToWhitelist, in every later
\* state checkWord(w) returns status pass when fast lookup is enabled, and
\* fails when it is disabled.
C2_WhitelistPrecedence ==
    \A w \in added :
        CheckWord(w).status = IF useFastLookup THEN "pass" ELSE "error"

\* C2 witness: checkWord returned pass for an added word whose normalized
\* form is a banned key.
C2_Witness ==
    /\ last.op = "checkWord"
    /\ last.arg \in added
    /\ normalize(last.arg) \in DOMAIN normalizedBannedMap
    /\ last.result.status = "pass"

\* C3: normalize is idempotent: normalizing the result of normalize gives
\* the same string, for every input, table and case mode.
C3_Idempotent ==
    last.op = "normalize" => normalize(last.result) = last.result

\* C4: on fresh detectors that differ only in useFastLookup, detect(text)
\* returns the same found and the same set of matches, for every text.
C4_CacheIsOptimization ==
    Fresh =>
        \A text \in Texts :
            LET on  == DetectWith(TRUE,
                           InitialLookup(caseSensitive, homoglyphMapping, TRUE,
                                         bannedWords, last.arg), text).result
                off == DetectWith(FALSE,
                           InitialLookup(caseSensitive, homoglyphMapping, FALSE,
                                         bannedWords, last.arg), text).result
            IN  on.found = off.found /\ MatchSet(on) = MatchSet(off)

Separators == { ".", "*" }

\* the tokens made from w by putting at most one separator into each gap
\* between two letters of w, and at least one separator in all
RECURSIVE Insertions(_)
Insertions(w) ==
    IF Len(w) <= 1 THEN { w }
    ELSE { <<Head(w)>> \o gap \o rest :
             gap \in { <<>> } \cup { <<sep>> : sep \in Separators },
             rest \in Insertions(Tail(w)) }

SeparatedForms(w) == Insertions(w) \ { w }

\* C5 as stated: for every banned word w of ASCII letters that is not
\* whitelisted and every token made from w by inserting separators, detect
\* returns found with w in matches, with fast lookup enabled and disabled.
C5_SeparatorReportsWord ==
    \A w \in Range(bannedWords) :
        (~HasSep(w) /\ ~Whitelisted(normalize(w))) =>
            \A token \in SeparatedForms(w) :
                LET r == Detect(token).result
                IN  r.found /\ w \in MatchSet(r)

\* C5 amended: for every banned word w of ASCII letters that is not
\* whitelisted and every token made from w by inserting separators, detect
\* returns found, and matches holds the banned word stored for the key
\* normalize(w): w itself, unless a later word of the banned list has the
\* same normalized form. With fast lookup enabled and disabled.
C5_SeparatorTolerance ==
    \A w \in Range(bannedWords) :
        (~HasSep(w) /\ ~Whitelisted(normalize(w))) =>
            \A token \in SeparatedForms(w) :
                LET r == Detect(token).result
                IN  r.found /\ normalizedBannedMap[normalize(w)] \in MatchSet(r)

\* C5 witness: with fast lookup disabled, detect found a banned word in a
\* token with separators.
C5_Witness ==
    /\ last.op = "detect"
    /\ ~useFastLookup
    /\ \E w \in Range(bannedWords) : last.arg \in SeparatedForms(w)
    /\ last.result.found

\* C6: on a fresh detector, two single-token inputs with the same
\* normalized form get the same found and the same matches.
C6_HomoglyphTolerance ==
    Fresh =>
        \A t1, t2 \in Tokens :
            normalize(t1) = normalize(t2) =>
                LET r1 == Detect(t1).result
                    r2 == Detect(t2).result
                IN  r1.found = r2.found /\ MatchSet(r1) = MatchSet(r2)

\* the token's normalized letters are a banned key written back to front,
\* and the token is neither whitelisted nor a banned key itself
ReversedBanned(token) ==
    /\ Reverse(normalize(token)) \in DOMAIN normalizedBannedMap
    /\ normalize(token) \notin DOMAIN normalizedBannedMap
    /\ ~Whitelisted(normalize(token))

\* C7: on a fresh detector with useReversible a token whose normalized
\* letters are a banned key written back to front is found and the forward
\* banned word is reported; without useReversible it is not flagged.
C7_ReversedDetection ==
    Fresh =>
        \A token \in Tokens :
            ReversedBanned(token) =>
                LET r == Detect(token).result
                IN  IF useReversible
                    THEN r.found /\ normalizedBannedMap[Reverse(normalize(token))]
                                        \in MatchSet(r)
                    ELSE ~r.found

\* C8: with fast lookup disabled checkWord fails for every word, and a
\* checkWord call leaves the cache, the user whitelist and the lexicon
\* unchanged.
C8_CheckWordDisabled ==
    /\ [](~useFastLookup => \A word \in Tokens : CheckWord(word).status = "error")
    /\ [][(~useFastLookup /\ last'.op = "checkWord") =>
             ( /\ last'.result.status = "error"
               /\ UNCHANGED <<fastLookup, userWhitelist, Lexicon>> )]_vars

\* C8 witness: checkWord was called with fast lookup disabled and failed.
C8_Witness ==
    /\ ~useFastLookup
    /\ last.op = "checkWord"
    /\ last.result.status = "error"

\* the key has a cache entry with status banned
CachedBanned(fl, key) == key \in DOMAIN fl /\ fl[key].status = "banned"

\* C9: once the cache holds status banned for a key, detect reports the
\* entry's word for every text with a token of that key and checkWord
\* returns banned for it, and no call but addToWhitelist for that key
\* changes the entry.
C9_MemoizationStable ==
    /\ [](\A key \in DOMAIN fastLookup :
            CachedBanned(fastLookup, key) =>
                /\ \A text \in Texts :
                     (\E token \in Range(Split(text)) : normalize(token) = key) =>
                         LET r == Detect(text).result
                         IN  r.found /\ fastLookup[key].originalWord[1] \in MatchSet(r)
                /\ \A word \in Tokens :
                     normalize(word) = key => CheckWord(word).status = "banned")
    /\ [][\A key \in DOMAIN fastLookup :
            ( /\ CachedBanned(fastLookup, key)
              /\ ~(last'.op = "addToWhitelist" /\ normalize(last'.arg) = key) )
            => key \in DOMAIN fastLookup' /\ fastLookup'[key] = fastLookup[key]]_vars

\* C9 witness: the last detect call reported a key that an earlier call
\* memoized as banned: the token itself matches no rule, its key is no key
\* of the banned map, and the answer came from the cache.
C9_Witness ==
    /\ last.op = "detect"
    /\ last.result.found
    /\ CachedBanned(fastLookup, normalize(last.arg))
    /\ normalize(last.arg) \notin DOMAIN normalizedBannedMap
    /\ normalize(Strip(last.arg)) \notin DOMAIN normalizedBannedMap
    /\ Reverse(normalize(Strip(last.arg))) \notin DOMAIN normalizedBannedMap

\* C10: with fast lookup enabled, two consecutive detect calls with the
\* same text return the same found and the same matches, from every
\* reachable state.
C10_CacheConsistency ==
    useFastLookup =>
        \A text \in Texts :
            LET first  == DetectFrom(fastLookup, text)
                second == DetectFrom(first.fl, text)
            IN  /\ second.result.found = first.result.found
                /\ second.result.matches = first.result.matches

\* C10 witness: detect has just memoized a banned token, and a second call
\* with the same text gives the same result from the cache.
C10_Witness ==
    /\ useFastLookup
    /\ last.op = "detect"
    /\ last.result.found
    /\ normalize(last.arg) \notin DOMAIN normalizedBannedMap
    /\ Detect(last.arg).result.matches = last.result.matches

\* C11: from the same starting state, a two-token text and the text with
\* its tokens swapped get the same found and the same set of matches.
C11_TokenOrder ==
    \A p \in TokenPairs :
        LET r1 == Detect(Join(p)).result
            r2 == Detect(Join(<<p[2], p[1]>>)).result
        IN  r1.found = r2.found /\ MatchSet(r1) = MatchSet(r2)

\* C12: a token whose normalized form is both a default-whitelist key and
\* a banned key is not flagged by detect, with and without the cache, and
\* checkWord does not return banned for it.
C12_DefaultWhitelistWins ==
    \A token \in PlainTokens :
        ( /\ normalize(token) \in normalizedWhitelist
          /\ normalize(token) \in DOMAIN normalizedBannedMap )
        => /\ ~DetectWith(useFastLookup, fastLookup, token).result.found
           /\ CheckWord(token).status # "banned"

\* the keys the constructor put in the user whitelist: the keys of the
\* user whitelist that no addToWhitelist call accounts for
SafeWordKeys == userWhitelist \ { normalize(w) : w \in added }

\* C13 as stated: for every token whose normalized form is a safeWords key
\* checkWord returns pass and detect does not flag it, with fast lookup
\* enabled and with it disabled.
C13_SafeWordsAlwaysPass ==
    \A token \in Tokens :
        normalize(token) \in SafeWordKeys =>
            /\ CheckWord(token).status = "pass"
            /\ ~Detect(token).result.found

\* C13: for every token whose normalized form is a safeWords key, detect
\* does not flag it and counts it as a whitelisted skip, with and without
\* fast lookup and also when the key is a banned key; checkWord returns
\* pass for it with fast lookup enabled and fails with it disabled.
C13_SafeWordsPrecedence ==
    \A token \in Tokens :
        normalize(token) \in SafeWordKeys =>
            LET r == Detect(token).result
            IN  /\ ~r.found
                /\ r.matches = <<>>
                /\ r.whitelistedSkips = 1
                /\ CheckWord(token).status = IF useFastLookup THEN "pass" ELSE "error"

\* C13 witness: detect has just been called with a token whose normalized
\* form is a safeWords key and a banned key, and did not flag it.
C13_Witness ==
    /\ last.op = "detect"
    /\ normalize(last.arg) \in SafeWordKeys
    /\ normalize(last.arg) \in DOMAIN normalizedBannedMap
    /\ ~last.result.found
    /\ last.result.whitelistedSkips = 1

\* key occurs in s as a contiguous substring
Contains(key, s) ==
    \E i \in 0..(Len(s) - Len(key)) : SubSeq(s, i + 1, i + Len(key)) = key

\* the banned keys contained in s
ContainedKeys(s) == { k \in DOMAIN normalizedBannedMap : Contains(k, s) }

\* tokens with a banned word embedded in a longer run of letters
EmbeddedTokens == { <<"a","b","a","d">>, <<"b","a","d","b">>, <<"d","a","d","d","a">> }

\* C14: a token that is not whitelisted and whose normalized form contains
\* a banned key is found, and matches holds the word of a longest banned
\* key it contains.
C14_SubstringDetection ==
    \A token \in EmbeddedTokens :
        LET n == normalize(token)
            r == Detect(token).result
        IN  (ContainedKeys(n) # {} /\ ~Whitelisted(n)) =>
                /\ r.found
                /\ \E k \in ContainedKeys(n) :
                     /\ \A k2 \in ContainedKeys(n) : Len(k2) <= Len(k)
                     /\ normalizedBannedMap[k] \in MatchSet(r)

-----------------------------------------------------------------------------
(* The edit distance of src/types.ts *)

Min3(a, b, c) == IF a <= b /\ a <= c THEN a ELSE IF b <= c THEN b ELSE c

\* the inner loop without the substitution case
RECURSIVE FillRowIndel(_, _, _, _, _)
FillRowIndel(str1, str2, i, prev, row) ==
    LET j == Len(row)
    IN  IF j > Len(str2) THEN row
        ELSE FillRowIndel(str1, str2, i, prev,
                          Append(row, IF str1[i] = str2[j]
                                      THEN prev[j]
                                      ELSE Min3(prev[j + 1] + 1, row[j] + 1, row[j] + 1)))

\* the inner loop: row is dp[i][0..j-1], prev is dp[i-1]; dp[x][y] is kept
\* at position y + 1
RECURSIVE FillRow(_, _, _, _, _)
FillRow(str1, str2, i, prev, row) ==
    LET j == Len(row)
    IN  IF j > Len(str2) THEN row
        ELSE FillRow(str1, str2, i, prev,
                     Append(row, IF str1[i] = str2[j]
                                 THEN prev[j]
                                 ELSE Min3(prev[j + 1] + 1, row[j] + 1, prev[j] + 1)))

\* the outer loop: returns dp[m]
RECURSIVE FillTable(_, _, _, _)
FillTable(str1, str2, i, prev) ==
    IF i > Len(str1) THEN prev
    ELSE FillTable(str1, str2, i + 1, FillRow(str1, str2, i, prev, <<i>>))

\* calculateEditDistance(str1, str2): dp[m][n]
calculateEditDistance(str1, str2) ==
    FillTable(str1, str2, 1, [j \in 1..(Len(str2) + 1) |-> j - 1])[Len(str2) + 1]

\* fuzzyMatch(text, banned)
fuzzyMatch(text, banned) ==
    LET diff == IF Len(text) >= Len(banned) THEN Len(text) - Len(banned)
                ELSE Len(banned) - Len(text)
    IN  IF diff > 1 THEN FALSE ELSE calculateEditDistance(text, banned) <= 1

-----------------------------------------------------------------------------

\* tokens one edit away from a banned word (a substitution, an insertion,
\* a deletion) and tokens two or more edits away from every banned word
NearTokens == { <<"b","a","t">>, <<"b","a","a","d">>, <<"b","d">>,
                <<"b","o","t">>, <<"t","o","d","d","y">> }

\* the distances from s to the banned keys
KeyDistances(s) == { calculateEditDistance(s, k) : k \in DOMAIN normalizedBannedMap }

\* no rule but the fuzzy one applies to the token
NoOtherRule(token) ==
    /\ ~CachedBanned(fastLookup, normalize(token))
    /\ normalize(Strip(token)) \notin DOMAIN normalizedBannedMap
    /\ Reverse(normalize(Strip(token))) \notin DOMAIN normalizedBannedMap

\* C15: a token that is not whitelisted is found when some banned key is
\* at edit distance exactly 1 from its normalized form, and is not found
\* when every banned key is at distance 2 or more and no other rule applies.
C15_FuzzyBoundary ==
    \A token \in NearTokens :
        LET n == normalize(token)
            r == Detect(token).result
        IN  ~Whitelisted(n) =>
                /\ (1 \in KeyDistances(n) => r.found)
                /\ ((\A d \in KeyDistances(n) : d >= 2) /\ NoOtherRule(token)) => ~r.found

-----------------------------------------------------------------------------
(* A detector whose banned list holds short words *)

W_ad == <<"a","d">>

W_dots == <<".",".">>

\* banned words with normalized length 2 and 0 next to an ordinary word
ShortWordList == <<W_ad, W_dots, W_bad>>

\* new ProfaneDetect({bannedWords: ShortWordList, useFastLookup, useReversible})
ShortInit ==
    \E ufl \in BOOLEAN, rev \in BOOLEAN :
        /\ Construct(FALSE, defaultHomoglyphMapping, ufl, rev, ShortWordList, <<>>)
        /\ last = [op |-> "new", arg |-> <<>>, result |-> None]

ShortSpec == ShortInit /\ [][Next]_vars

-----------------------------------------------------------------------------

\* the banned words whose normalized form has fewer than 3 characters
ShortBanned == { w \in Range(bannedWords) : Len(normalize(w)) < 3 }

\* C16: a banned word whose normalized form is shorter than 3 characters
\* is no key of the banned map, and no token is reported under such a word.
C16_ShortWordsExcluded ==
    /\ \A w \in ShortBanned : normalize(w) \notin DOMAIN normalizedBannedMap
    /\ \A token \in Tokens \cup {W_ad} :
         MatchSet(Detect(token).result) \cap ShortBanned = {}

\* a banned word with a digit put in: the digit counts as a separator for
\* the obfuscated rule and as a letter for the cache key
W_b1ad == <<"b","1","a","d">>

AddedKeys == { normalize(w) : w \in added }

\* the positions of the tokens of a text whose key was added to the whitelist
AddedAt(tokens) == { i \in DOMAIN tokens : normalize(tokens[i]) \in AddedKeys }

\* C18: with fast lookup disabled, after addToWhitelist(w) every detect
\* treats a token whose normalized form is normalize(w) as whitelisted: a
\* text of that token alone is not found, has no matches and one
\* whitelisted skip, and in a longer text the token is counted in
\* whitelistedSkips and the matches are those of the other tokens.
C18_UserWhitelistUncached ==
    ~useFastLookup =>
        /\ \A token \in Tokens :
             normalize(token) \in AddedKeys =>
                 LET r == Detect(token).result
                 IN  ~r.found /\ r.matches = <<>> /\ r.whitelistedSkips = 1
        /\ \A text \in Texts :
             LET tokens == Split(text)
                 r == Detect(text).result
             IN  /\ r.whitelistedSkips >= Cardinality(AddedAt(tokens))
                 /\ MatchSet(r) = UNION { MatchSet(Detect(tokens[i]).result) :
                                            i \in DOMAIN tokens \ AddedAt(tokens) }

\* C18 witness: with fast lookup disabled, detect has just skipped a token
\* that spells an added banned key with separators, which the obfuscated
\* rule flags when the key is not whitelisted.
C18_Witness ==
    /\ ~useFastLookup
    /\ last.op = "detect"
    /\ normalize(last.arg) \in AddedKeys
    /\ HasSep(last.arg)
    /\ normalize(Strip(last.arg)) \in DOMAIN normalizedBannedMap
    /\ ~last.result.found
    /\ last.result.whitelistedSkips = 1

UpperOf == [c \in Range(LowerLetters) |->
              UpperLetters[CHOOSE i \in DOMAIN LowerLetters : LowerLetters[i] = c]]

\* s converted to upper case, one character at a time
ToUpper(s) == [i \in DOMAIN s |-> IF s[i] \in DOMAIN UpperOf THEN UpperOf[s[i]] ELSE s[i]]

\* s is made of ASCII letters only
IsLetters(s) == \A i \in DOMAIN s : IsAsciiLetter(s[i])

\* C19: with caseSensitive=false, a string of ASCII letters and its upper
\* case form have the same normalized form, under every homoglyph table.
C19_CaseInvariance ==
    (~caseSensitive /\ IsLetters(last.arg)) =>
        /\ normalize(last.arg) = normalize(ToUpper(last.arg))
        /\ last.op = "normalize" => last.result = normalize(ToUpper(last.arg))

\* C19 witness: normalize was applied, with caseSensitive=false, to a
\* string of letters that has a lower-case letter, and the result has
\* letters.
C19_Witness ==
    /\ ~caseSensitive
    /\ last.op = "normalize"
    /\ IsLetters(last.arg)
    /\ ToUpper(last.arg) # last.arg
    /\ last.result # <<>>
    /\ last.result = normalize(ToUpper(last.arg))

\* C20: with fast lookup enabled, the first detect of a single token whose
\* key is not in the cache reports lookupHits 0, and a second detect of the
\* same token reports lookupHits 1.
C20_LookupHitsCount ==
    useFastLookup =>
        \A token \in Tokens :
            normalize(token) \notin DOMAIN fastLookup =>
                LET first  == DetectFrom(fastLookup, token)
                    second == DetectFrom(first.fl, token)
                IN  /\ first.result.lookupHits = Some(0)
                    /\ second.result.lookupHits = Some(1)

\* C21: no step removes a key from the cache or from the user whitelist,
\* and no step changes the banned map or the default whitelist.
C21_OnlyGrow ==
    [][ /\ DOMAIN fastLookup \subseteq DOMAIN fastLookup'
        /\ userWhitelist \subseteq userWhitelist'
        /\ normalizedBannedMap' = normalizedBannedMap
        /\ normalizedWhitelist' = normalizedWhitelist ]_vars

\* C21 witness: the cache holds a key that detect memoized and the user
\* whitelist holds a key that addToWhitelist added, next to the seeded ones.
C21_Witness ==
    /\ useFastLookup
    /\ added # {}
    /\ { normalize(w) : w \in added } \subseteq userWhitelist
    /\ \E key \in DOMAIN fastLookup :
         /\ key \notin DOMAIN normalizedBannedMap
         /\ key \notin normalizedWhitelist
         /\ key \notin userWhitelist
    /\ DOMAIN normalizedBannedMap \cup normalizedWhitelist \subseteq DOMAIN fastLookup

\* C22: from every state, detect(a) followed by detect(b) leaves the same
\* cache as detect(b) followed by detect(a).
C22_CacheOrderIndependent ==
    \A a, b \in Tokens :
        DetectFrom(DetectFrom(fastLookup, a).fl, b).fl
            = DetectFrom(DetectFrom(fastLookup, b).fl, a).fl

-----------------------------------------------------------------------------
(* The ProfaneDetect class of src/types.ts: normalization that keeps
   whitespace and digits, a whole-text whitelist test, and exact and fuzzy
   matching of every word against every banned key *)

\* /[-_.*+!@#$%^&()]/
IsObfuscationChar(c) ==
    c \in {"-", "_", ".", "*", "+", "!", "@", "#", "$", "%", "^", "&", "(", ")"}

NotObfuscationChar(c) == ~IsObfuscationChar(c)

\* this.homoglyphMapping[char] || char
LegacyMapChar(hm, ch) == IF ch \in DOMAIN hm /\ hm[ch] # "" THEN hm[ch] ELSE ch

\* normalize(text) of the types.ts class
LegacyNormalizeWith(cs, hm, text) ==
    LET s1 == SelectSeq(NFD(text), NotCombiningMark)
        s2 == SelectSeq(s1, NotZeroWidth)
        s3 == SelectSeq(s2, NotObfuscationChar)
        s4 == IF cs THEN s3 ELSE [i \in DOMAIN s3 |-> ToLowerChar(s3[i])]
    IN  [i \in DOMAIN s4 |-> LegacyMapChar(hm, s4[i])]

LegacyNormalize(text) == LegacyNormalizeWith(caseSensitive, homoglyphMapping, text)

\* initializeNormalizedCaches: the banned map, without the short words
RECURSIVE LegacyBannedMap(_, _, _, _)
LegacyBannedMap(cs, hm, words, m) ==
    IF words = <<>> THEN m
    ELSE LET normalized == LegacyNormalizeWith(cs, hm, Head(words))
         IN  LegacyBannedMap(cs, hm, Tail(words),
                             IF Len(normalized) >= 3
                             THEN Put(m, normalized, Head(words))
                             ELSE m)

\* the keys of the banned map in the order a Map iterates them: the order
\* of their first insertion
RECURSIVE LegacyKeyOrder(_, _)
LegacyKeyOrder(words, keys) ==
    IF words = <<>> THEN keys
    ELSE LET normalized == LegacyNormalize(Head(words))
         IN  LegacyKeyOrder(Tail(words),
                            IF Len(normalized) >= 3 THEN SetAdd(keys, normalized) ELSE keys)

\* text.split(/\s+/): a run of whitespace separates, empty strings are kept
RECURSIVE LegacySplitFrom(_, _, _, _)
LegacySplitFrom(text, i, cur, acc) ==
    IF i > Len(text) THEN Append(acc, cur)
    ELSE IF IsWhitespace(text[i])
         THEN (IF i > 1 /\ IsWhitespace(text[i - 1])
               THEN LegacySplitFrom(text, i + 1, cur, acc)
               ELSE LegacySplitFrom(text, i + 1, <<>>, Append(acc, cur)))
         ELSE LegacySplitFrom(text, i + 1, Append(cur, text[i]), acc)

LegacySplit(text) == LegacySplitFrom(text, 1, <<>>, <<>>)

\* the body of the loop over the banned map, for one word and one key
LegacyKeyStep(st, normalizedWord, bannedNormalized) ==
    LET originalBanned == normalizedBannedMap[bannedNormalized]
        checked == [st EXCEPT !.totalChecked = @ + 1]
    IN  IF normalizedWord = bannedNormalized
        THEN [checked EXCEPT !.matches = SetAdd(@, originalBanned),
                             !.exactMatches = @ + 1]
        ELSE IF originalBanned \notin Range(st.matches)
                /\ fuzzyMatch(normalizedWord, bannedNormalized)
        THEN [checked EXCEPT !.matches = SetAdd(@, originalBanned),
                             !.fuzzyMatches = @ + 1]
        ELSE checked

RECURSIVE LegacyKeyLoop(_, _, _)
LegacyKeyLoop(st, normalizedWord, keys) ==
    IF keys = <<>> THEN st
    ELSE LegacyKeyLoop(LegacyKeyStep(st, normalizedWord, Head(keys)),
                       normalizedWord, Tail(keys))

\* one iteration of the loop over the words
LegacyWordStep(st, word) ==
    LET normalizedWord == LegacyNormalize(word)
    IN  IF normalizedWord \in normalizedWhitelist
        THEN [st EXCEPT !.whitelistedSkips = @ + 1]
        ELSE LegacyKeyLoop(st, normalizedWord, LegacyKeyOrder(bannedWords, <<>>))

RECURSIVE LegacyWordLoop(_, _)
LegacyWordLoop(st, words) ==
    IF words = <<>> THEN st
    ELSE LegacyWordLoop(LegacyWordStep(st, Head(words)), Tail(words))

\* the result detect builds from the counters
LegacyResult(st, normalizedText) ==
    [ found            |-> st.matches # <<>>,
      matches          |-> st.matches,
      normalized       |-> normalizedText,
      exactMatches     |-> st.exactMatches,
      fuzzyMatches     |-> st.fuzzyMatches,
      totalChecked     |-> st.totalChecked,
      whitelistedSkips |-> st.whitelistedSkips ]

\* the word-by-word part of detect: split the normalized text, check each word
LegacyWordAnalysis(text) ==
    LET normalizedText == LegacyNormalize(text)
        st0 == [matches |-> <<>>, whitelistedSkips |-> 0, exactMatches |-> 0,
                fuzzyMatches |-> 0, totalChecked |-> 0]
    IN  LegacyResult(LegacyWordLoop(st0, LegacySplit(normalizedText)), normalizedText)

\* detect(text) of the types.ts class
LegacyDetect(text) ==
    LET normalizedText == LegacyNormalize(text)
    IN  IF normalizedText \in normalizedWhitelist
        THEN LegacyResult([matches |-> <<>>, whitelistedSkips |-> 1, exactMatches |-> 0,
                           fuzzyMatches |-> 0, totalChecked |-> 1], normalizedText)
        ELSE LegacyWordAnalysis(text)

W_bat == <<"b","a","t">>

\* a phrase: two words and the space between them
W_bad_dad == <<"b","a","d"," ","d","a","d">>

\* options.safeWords of the types.ts class
LegacySafeWordLists == { <<>>, <<W_add>>, <<W_bad_dad>> }

\* options.homoglyphMapping of the types.ts class
LegacyTables == { <<>>, defaultHomoglyphMapping }

LegacyTexts ==
    { W_bad, W_Bad, W_add, W_dad, W_dab, W_bat, W_ad, <<>>,
      <<"b",".","a",".","d">>, <<"b","GrAlpha","d">>, <<"b","AACUTE","d">>,
      W_bad_dad, <<"d","a","d"," ","b","a","d">>, <<"d","a","d"," ","a","d","d">>,
      <<" ","d","a","d">>, <<"b","a","t"," "," ","d","a","d">> }

\* new ProfaneDetect(options) of the types.ts class; the fields of the
\* index.ts class that it does not have stay empty
LegacyInit ==
    \E cs \in BOOLEAN, hm \in LegacyTables, safeWords \in LegacySafeWordLists :
        /\ caseSensitive = cs
        /\ homoglyphMapping = hm
        /\ bannedWords = BannedWordList
        /\ normalizedBannedMap = LegacyBannedMap(cs, hm, BannedWordList, <<>>)
        /\ normalizedWhitelist =
             { LegacyNormalizeWith(cs, hm, w) : w \in Range(defaultWhitelist \o safeWords) }
        /\ useFastLookup = FALSE
        /\ useReversible = FALSE
        /\ fastLookup = <<>>
        /\ userWhitelist = {}
        /\ added = {}
        /\ last = [op |-> "new", arg |-> safeWords, result |-> None]

\* detect(text) of the types.ts class
LegacyDetectCall ==
    \E text \in LegacyTexts :
        /\ last' = [op |-> "detect", arg |-> text, result |-> LegacyDetect(text)]
        /\ UNCHANGED <<Config, Lexicon, fastLookup, userWhitelist, added>>

LegacyNext == LegacyDetectCall

LegacySpec == LegacyInit /\ [][LegacyNext]_vars

-----------------------------------------------------------------------------

\* C23: whenever the whole normalized text is a whitelist entry, so that
\* detect returns found=false early, the word-by-word analysis of the same
\* text does not find anything either.
C23_ShortCircuitIsOptimization ==
    \A text \in LegacyTexts :
        LegacyNormalize(text) \in normalizedWhitelist =>
            /\ ~LegacyDetect(text).found
            /\ ~LegacyWordAnalysis(text).found

\* the pairs of positions of the banned list that hold different words with
\* the same key, the second being the last word of the list with that key
Collisions ==
    { p \in (DOMAIN bannedWords) \X (DOMAIN bannedWords) :
        /\ p[1] < p[2]
        /\ bannedWords[p[1]] # bannedWords[p[2]]
        /\ normalize(bannedWords[p[1]]) = normalize(bannedWords[p[2]])
        /\ \A k \in DOMAIN bannedWords :
             k > p[2] => normalize(bannedWords[k]) # normalize(bannedWords[p[2]]) }

\* C24: when two words of the banned list have the same key, the banned
\* map stores the later one, detect never reports the earlier one and
\* reports the later one for a flagged token of that key, and a banned
\* answer of checkWord for that key carries the later word.
C24_LastWriteWins ==
    \A p \in Collisions :
        LET earlier == bannedWords[p[1]]
            later   == bannedWords[p[2]]
            key     == normalize(later)
        IN  /\ normalizedBannedMap[key] = later
            /\ \A text \in Texts : earlier \notin MatchSet(Detect(text).result)
            /\ \A token \in Tokens :
                 (normalize(token) = key /\ Detect(token).result.found) =>
                     MatchSet(Detect(token).result) = {later}
            /\ useFastLookup =>
                 \A word \in Tokens :
                     (normalize(word) = key /\ CheckWord(word).status = "banned") =>
                         CheckWord(word).originalWord = Some(later)

\* C24 witness: detect was called with the earlier of two colliding banned
\* words and reported the later one.
C24_Witness ==
    /\ last.op = "detect"
    /\ last.result.found
    /\ \E p \in Collisions :
         /\ last.arg = bannedWords[p[1]]
         /\ MatchSet(last.result) = {bannedWords[p[2]]}

\* C25: the result of normalize has ASCII letters only, for every input and
\* every table, and it is empty exactly when no character of the input
\* normalizes to a letter.
C25_LettersOnly ==
    /\ IsLetters(normalize(last.arg))
    /\ normalize(last.arg) = <<>>
         <=> \A i \in DOMAIN last.arg : normalize(<<last.arg[i]>>) = <<>>
    /\ normalize(<<>>) = <<>>
    /\ last.op = "normalize" => last.result = normalize(last.arg)

\* C25 witness: normalize was applied to a non-empty string with an
\* unmapped digit in it, none of whose characters maps to a letter, and
\* returned the empty string.
C25_Witness ==
    /\ last.op = "normalize"
    /\ last.arg # <<>>
    /\ \E i \in DOMAIN last.arg : last.arg[i] = "2"
    /\ last.result = <<>>

-----------------------------------------------------------------------------
(* The edit-distance helpers as pure functions of two strings *)

\* the while loop of missingOneLetter (src/unnamed/part_001), positions
\* counted from 1
RECURSIVE MissingLoop(_, _, _, _, _)
MissingLoop(token, banned, i, j, skipped) ==
    IF i <= Len(token) /\ j <= Len(banned)
    THEN IF token[i] = banned[j]
         THEN MissingLoop(token, banned, i + 1, j + 1, skipped)
         ELSE IF skipped THEN FALSE
         ELSE MissingLoop(token, banned, i, j + 1, TRUE)
    ELSE TRUE

\* missingOneLetter(token, banned)
missingOneLetter(token, banned) ==
    IF Len(banned) - Len(token) # 1 THEN FALSE
    ELSE MissingLoop(token, banned, 1, 1, FALSE)

\* fuzzyMatch(token, banned) of src/unnamed/part_001, whose editDistance
\* is the same table as calculateEditDistance
TokenFuzzyMatch(token, banned) ==
    calculateEditDistance(token, banned) <= 1 \/ missingOneLetter(token, banned)

EditLen == 3

EditChars == {"a", "b"}

EditStrings == UNION { [1..k -> EditChars] : k \in 0..EditLen }

\* a detector and a pair of strings to compare
EditInit ==
    \E s \in EditStrings, t \in EditStrings :
        /\ Construct(FALSE, defaultHomoglyphMapping, TRUE, TRUE, BannedWordList, <<>>)
        /\ last = [op |-> "input", arg |-> <<s, t>>, result |-> None]

\* calculateEditDistance(s, t)
EditDistanceCall ==
    /\ last.op = "input"
    /\ last' = [op |-> "distance", arg |-> last.arg,
                result |-> calculateEditDistance(last.arg[1], last.arg[2])]
    /\ UNCHANGED <<Config, Lexicon, fastLookup, userWhitelist, added>>

\* fuzzyMatch(s, t)
FuzzyMatchCall ==
    /\ last.op = "input"
    /\ last' = [op |-> "fuzzyMatch", arg |-> last.arg,
                result |-> fuzzyMatch(last.arg[1], last.arg[2])]
    /\ UNCHANGED <<Config, Lexicon, fastLookup, userWhitelist, added>>

\* fuzzyMatch(s, t) of part_001
TokenFuzzyMatchCall ==
    /\ last.op = "input"
    /\ last' = [op |-> "tokenFuzzyMatch", arg |-> last.arg,
                result |-> TokenFuzzyMatch(last.arg[1], last.arg[2])]
    /\ UNCHANGED <<Config, Lexicon, fastLookup, userWhitelist, added>>

EditNext == EditDistanceCall \/ FuzzyMatchCall \/ TokenFuzzyMatchCall

EditSpec == EditInit /\ [][EditNext]_vars

-----------------------------------------------------------------------------

\* the Levenshtein distance by its defining recursion: drop the first
\* character of a, of b, or of both (at cost 0 when they are equal)
RECURSIVE Levenshtein(_, _)
Levenshtein(a, b) ==
    IF a = <<>> THEN Len(b)
    ELSE IF b = <<>> THEN Len(a)
    ELSE Min3(Levenshtein(Tail(a), b) + 1,
              Levenshtein(a, Tail(b)) + 1,
              Levenshtein(Tail(a), Tail(b)) + (IF Head(a) = Head(b) THEN 0 ELSE 1))

\* C26: calculateEditDistance returns the Levenshtein distance of its
\* arguments, empty strings included, and is symmetric; fuzzyMatch, in the
\* types.ts form and in the part_001 form, is true exactly when the
\* distance is at most 1.
C26_EditDistance ==
    LET s == last.arg[1]
        t == last.arg[2]
        d == Levenshtein(s, t)
    IN  /\ calculateEditDistance(s, t) = d
        /\ calculateEditDistance(t, s) = d
        /\ fuzzyMatch(s, t) <=> d <= 1
        /\ TokenFuzzyMatch(s, t) <=> d <= 1
        /\ last.op = "distance" => last.result = d
        /\ last.op \in {"fuzzyMatch", "tokenFuzzyMatch"} => (last.result <=> d <= 1)

\* C26 witness: fuzzyMatch was asked about the empty string and a string of
\* one character, and answered true; the distance is 1 in both directions.
C26_Witness ==
    /\ last.op = "fuzzyMatch"
    /\ last.arg[1] = <<>>
    /\ Len(last.arg[2]) = 1
    /\ last.result = TRUE
    /\ calculateEditDistance(last.arg[2], last.arg[1]) = 1

\* C27: with fast lookup enabled every key of the user whitelist has a
\* cache entry with status pass, and a cache entry with status pass keeps
\* that status in every later state.
C27_PassIsStable ==
    /\ [](useFastLookup =>
            \A key \in userWhitelist :
                key \in DOMAIN fastLookup /\ fastLookup[key].status = "pass")
    /\ [][\A key \in DOMAIN fastLookup :
            fastLookup[key].status = "pass" =>
                key \in DOMAIN fastLookup' /\ fastLookup'[key].status = "pass"]_vars

\* C27 witness: a key that was cached as banned has been added to the user
\* whitelist, its entry is pass, and a detect call on it has left it pass.
C27_Witness ==
    /\ useFastLookup
    /\ last.op = "detect"
    /\ normalize(last.arg) \in AddedKeys
    /\ normalize(last.arg) \in DOMAIN normalizedBannedMap
    /\ fastLookup[normalize(last.arg)].status = "pass"
    /\ last.result.whitelistedSkips = 1

\* every banned entry of the cache fl carries a word of the banned list,
\* and its key is the normalized word or the normalized word reversed
BannedEntriesSound(fl) ==
    \A key \in DOMAIN fl :
        fl[key].status = "banned" =>
            /\ fl[key].originalWord # None
            /\ fl[key].originalWord[1] \in Range(bannedWords)
            /\ \/ key = normalize(fl[key].originalWord[1])
               \/ key = Reverse(normalize(fl[key].originalWord[1]))

\* C28: the banned entries of the cache are sound in every state, and
\* stay sound after detect of any token.
C28_BannedEntries ==
    /\ BannedEntriesSound(fastLookup)
    /\ \A token \in Tokens \cup {W_b1ad} :
         BannedEntriesSound(DetectFrom(fastLookup, token).fl)

\* the added words whose key is a banned key
AddedBanned == { w \in added : normalize(w) \in DOMAIN normalizedBannedMap }

\* C29 as stated: after addToWhitelist(w) with a banned key, no detect call
\* reports the banned word of that key, whatever single token is supplied.
C29_OverrideCoversDisguises ==
    \A w \in AddedBanned :
        \A token \in Tokens \cup {W_b1ad} :
            normalizedBannedMap[normalize(w)] \notin MatchSet(Detect(token).result)

\* C29: after addToWhitelist(w) with a banned key, detect reports nothing
\* for a token whose normalized form is normalize(w): the plain word, the
\* word with separators between its letters, the word with digits or
\* homoglyphs that normalize to its letters; with and without fast lookup.
C29_OverrideCoversKey ==
    \A w \in AddedBanned :
        \A token \in Tokens \cup {W_b1ad} :
            normalize(token) = normalize(w) =>
                LET r == Detect(token).result
                IN  ~r.found /\ r.matches = <<>>

\* C29 witness: with fast lookup enabled, detect was called with a
\* disguised form of an added banned word and reported nothing.
C29_Witness ==
    /\ useFastLookup
    /\ last.op = "detect"
    /\ HasSep(last.arg)
    /\ \E w \in AddedBanned : normalize(last.arg) = normalize(w)
    /\ ~last.result.found
    /\ last.result.matches = <<>>

\* C30: with fast lookup disabled the cache is empty in every state and
\* detect leaves it empty, a repeated detect returns what the call just
\* returned, and a detect or toJson step changes nothing that detect
\* reads: the configuration, the lexicon, the user whitelist, the cache.
C30_StatelessWithoutCache ==
    /\ [](~useFastLookup =>
            /\ fastLookup = <<>>
            /\ \A text \in Texts : Detect(text).fl = <<>>
            /\ last.op = "detect" => Detect(last.arg).result = last.result)
    /\ [][(~useFastLookup /\ last'.op \in {"detect", "toJson"}) =>
             UNCHANGED <<Config, Lexicon, userWhitelist, fastLookup>>]_vars

\* C30 witness: with fast lookup disabled, detect has just flagged a text,
\* the cache is still empty and the same call gives the same result again.
C30_Witness ==
    /\ ~useFastLookup
    /\ last.op = "detect"
    /\ last.result.found
    /\ fastLookup = <<>>
    /\ Detect(last.arg).result = last.result

====
